---- MODULE Spec2Model ----
(***************************************************************************)
(* Model of the software-concepts application: the import Validator        *)
(* (validateJsonContent), the import-commit merge (handleValidatedImport), *)
(* the push and pull handlers of the settings panel and the sync route     *)
(* they talk to.                                                           *)
(*                                                                         *)
(* JavaScript strings are sequences of one-character strings, so that      *)
(* trim() and toLowerCase() are computed and not assumed.  JavaScript      *)
(* values carry their type tag in field t.                                 *)
(***************************************************************************)
EXTENDS Integers, Sequences, FiniteSets, TLC

(* ----------------------------- bounds --------------------------------- *)
\* longest array of entries a selected file may hold
MaxBatch == 2

(* ------------------------- JavaScript values -------------------------- *)
Undef == [t |-> "undefined"]
Null == [t |-> "null"]
Str(s) == [t |-> "string", v |-> s]
Num(n) == [t |-> "number", v |-> n]
Bool(b) == [t |-> "boolean", v |-> b]
\* a Date object; v = -1 is Invalid Date
DateVal(n) == [t |-> "date", v |-> n]
Arr(items) == [t |-> "array", items |-> items]
Obj(f) == [t |-> "object", f |-> f]

InvalidDate == DateVal(-1)

\* typeof x
TypeOf(x) ==
  IF x.t \in {"null", "array", "date"} THEN "object" ELSE x.t

\* !x is false
Truthy(x) ==
  CASE x.t \in {"undefined", "null"} -> FALSE
    [] x.t = "string" -> x.v # <<>>
    [] x.t = "number" -> x.v # 0
    [] x.t = "boolean" -> x.v
    [] OTHER -> TRUE

(* ----------------------------- strings -------------------------------- *)
LowerChar(ch) == IF ch = "A" THEN "a" ELSE IF ch = "B" THEN "b" ELSE ch

\* String.prototype.toLowerCase
toLowerCase(s) == [i \in 1..Len(s) |-> LowerChar(s[i])]

RECURSIVE TrimLeft(_)
TrimLeft(s) == IF s # <<>> /\ Head(s) = " " THEN TrimLeft(Tail(s)) ELSE s

RECURSIVE TrimRight(_)
TrimRight(s) ==
  IF s # <<>> /\ s[Len(s)] = " " THEN TrimRight(SubSeq(s, 1, Len(s) - 1)) ELSE s

\* String.prototype.trim
trim(s) == TrimRight(TrimLeft(s))

Digits == <<"0", "1", "2", "3", "4", "5", "6", "7", "8", "9">>

\* Date.prototype.toISOString, the form JSON.stringify gives a Date
toISOString(n) == <<"T", Digits[n + 1]>>

\* new Date(x): a number is a time value, a string is parsed, anything the
\* parser does not accept gives Invalid Date
NewDate(x) ==
  CASE x.t = "number" -> DateVal(x.v)
    [] x.t = "date" -> x
    [] x.t = "string" ->
         IF Len(x.v) = 2 /\ x.v[1] = "T" /\ \E d \in 1..Len(Digits) : Digits[d] = x.v[2]
           THEN DateVal((CHOOSE d \in 1..Len(Digits) : Digits[d] = x.v[2]) - 1)
           ELSE InvalidDate
    [] OTHER -> InvalidDate

(* ------------------------- the Concept record ------------------------- *)
requiredFields == <<"title", "topic", "definition", "keyword">>
optionalFields == <<"topicID", "detailedExplanation", "whenToUse", "whyNeed",
                    "codeExample", "differences", "createdAt", "updatedAt">>
allValidFields == requiredFields \o optionalFields

\* the keys an object of an import file may carry, in the order
\* Object.keys lists them: the known fields, the identifier, a stray field
KeyOrder == allValidFields \o <<"_id", "extra">>
Keys == {KeyOrder[k] : k \in 1..Len(KeyOrder)}

Includes(seq, x) == \E k \in 1..Len(seq) : seq[k] = x

\* property read concept[field]; a key that was never set reads undefined
Get(x, key) == IF x.t = "object" THEN x.f[key] ELSE Undef

RECURSIVE Flatten(_)
Flatten(ss) == IF ss = <<>> THEN <<>> ELSE Head(ss) \o Flatten(Tail(ss))


(* ------------------------------ Validator ----------------------------- *)
\* a ValidationError; field "" and conceptIndex -1 stand for an absent
\* field and an absent index, message is the message's fixed part
ValidationError(type, message, field, conceptIndex) ==
  [type |-> type, message |-> message, field |-> field, conceptIndex |-> conceptIndex]

\* FieldError without the !concept[field] check
FieldError_NoMissingCheck(concept, field, index) ==
  IF Truthy(Get(concept, field)) /\ TypeOf(Get(concept, field)) # "string"
    THEN <<ValidationError("error", "must be a string", field, index)>>
  ELSE IF Truthy(Get(concept, field)) /\ trim(Get(concept, field).v) = <<>>
    THEN <<ValidationError("error", "cannot be empty", field, index)>>
  ELSE <<>>

\* the three checks of one required field, the first that applies fires
FieldError(concept, field, index) ==
  IF ~Truthy(Get(concept, field))
    THEN <<ValidationError("error", "Missing required field", field, index)>>
  ELSE IF TypeOf(Get(concept, field)) # "string"
    THEN <<ValidationError("error", "must be a string", field, index)>>
  ELSE IF trim(Get(concept, field).v) = <<>>
    THEN <<ValidationError("error", "cannot be empty", field, index)>>
  ELSE <<>>

RequiredErrors(concept, index) ==
  Flatten([k \in 1..Len(requiredFields) |-> FieldError(concept, requiredFields[k], index)])

\* Object.keys(concept) filtered by !allValidFields.includes(key)
UnknownFieldWarnings(concept, index) ==
  Flatten([k \in 1..Len(KeyOrder) |->
    IF Get(concept, KeyOrder[k]) # Undef /\ ~Includes(allValidFields, KeyOrder[k])
      THEN <<ValidationError("warning", "Unknown field will be ignored", KeyOrder[k], index)>>
      ELSE <<>>])

\* concept.title && typeof concept.title === "string"
HasStringTitle(concept) ==
  Truthy(Get(concept, "title")) /\ TypeOf(Get(concept, "title")) = "string"

\* concept.title.toLowerCase().trim()
titleLower(concept) == trim(toLowerCase(Get(concept, "title").v))

DuplicateWarning(concept, index, seenTitles) ==
  IF HasStringTitle(concept) /\ titleLower(concept) \in seenTitles
    THEN <<ValidationError("warning", "Duplicate title", "title", index)>>
    ELSE <<>>

\* seenTitles after the record at hand
SeenAfter(concept, seenTitles) ==
  IF HasStringTitle(concept) THEN seenTitles \cup {titleLower(concept)} ELSE seenTitles

TopicIDError(concept, index) ==
  IF Get(concept, "topicID") # Undef /\ TypeOf(Get(concept, "topicID")) # "number"
    THEN <<ValidationError("error", "topicID must be a number", "topicID", index)>>
    ELSE <<>>

conceptErrors(concept, index, seenTitles) ==
  RequiredErrors(concept, index) \o UnknownFieldWarnings(concept, index)
    \o DuplicateWarning(concept, index, seenTitles) \o TopicIDError(concept, index)

IsError(e) == e.type = "error"

\* conceptErrors.some((err) => err.type === "error")
hasCriticalErrors(errs) == \E k \in 1..Len(errs) : IsError(errs[k])

\* the fields normalised with x?.trim() || ""
TrimmedFields == {"topic", "title", "definition", "detailedExplanation", "whenToUse",
                  "whyNeed", "codeExample", "keyword", "differences"}

\* x?.trim() throws a TypeError when x is neither null nor undefined and
\* has no trim method
TrimThrows(x) == x.t \notin {"undefined", "null", "string"}

\* x?.trim() || ""
TrimOrEmpty(x) == IF x.t = "string" THEN Str(trim(x.v)) ELSE Str(<<>>)

NormalizeThrows(concept) == \E f \in TrimmedFields : TrimThrows(Get(concept, f))

\* Normalized that keeps the identifier the entry came with
Normalized_KeepsId(concept, now) ==
  Obj([key \in Keys |->
    CASE key \in TrimmedFields -> TrimOrEmpty(Get(concept, key))
      [] key = "topicID" ->
           IF Truthy(Get(concept, "topicID")) THEN Get(concept, "topicID") ELSE Num(0)
      [] key \in {"createdAt", "updatedAt"} ->
           IF Truthy(Get(concept, key)) THEN NewDate(Get(concept, key)) ELSE DateVal(now)
      [] key = "_id" -> Get(concept, "_id")
      [] OTHER -> Undef])

\* the object literal pushed to validConcepts
Normalized(concept, now) ==
  Obj([key \in Keys |->
    CASE key \in TrimmedFields -> TrimOrEmpty(Get(concept, key))
      [] key = "topicID" ->
           IF Truthy(Get(concept, "topicID")) THEN Get(concept, "topicID") ELSE Num(0)
      [] key \in {"createdAt", "updatedAt"} ->
           IF Truthy(Get(concept, key)) THEN NewDate(Get(concept, key)) ELSE DateVal(now)
      [] OTHER -> Undef])

\* !concept || typeof concept !== "object"
NotAnObject(concept) == ~Truthy(concept) \/ TypeOf(concept) # "object"

\* parsedData.forEach from position i on; acc carries result.errors, the
\* local validConcepts, seenTitles, and whether the callback threw (which
\* ends the loop)
RECURSIVE forEachConcept(_, _, _, _)
forEachConcept(parsedData, i, acc, now) ==
  IF i > Len(parsedData) THEN acc
  ELSE
    LET concept == parsedData[i]
        index == i - 1
    IN IF NotAnObject(concept)
         THEN forEachConcept(parsedData, i + 1,
                [acc EXCEPT !.errors = @ \o
                   <<ValidationError("error", "is not a valid object", "", index)>>], now)
         ELSE
           LET errs == conceptErrors(concept, index, acc.seenTitles)
               seen == SeenAfter(concept, acc.seenTitles)
           IN IF hasCriticalErrors(errs)
                THEN forEachConcept(parsedData, i + 1,
                       [acc EXCEPT !.errors = @ \o errs, !.seenTitles = seen], now)
              ELSE IF NormalizeThrows(concept)
                THEN [acc EXCEPT !.errors = @ \o errs, !.seenTitles = seen, !.threw = TRUE]
              ELSE forEachConcept(parsedData, i + 1,
                     [acc EXCEPT !.errors = @ \o errs, !.seenTitles = seen,
                                 !.validConcepts = Append(@, Normalized(concept, now))], now)

ErrorCount(errors) == Cardinality({k \in 1..Len(errors) : IsError(errors[k])})

\* IsValidFlag without the count of errors
IsValidFlag_IgnoresErrors(validConcepts, errors) == Len(validConcepts) > 0

\* validConcepts.length > 0 && no entry of result.errors is an error
IsValidFlag(validConcepts, errors) == Len(validConcepts) > 0 /\ ErrorCount(errors) = 0

\* the text of a file: blank, text JSON.parse rejects, or the text of a value
Blank == [kind |-> "blank"]
Garbage == [kind |-> "garbage"]
Json(v) == [kind |-> "json", v |-> v]

ValidationResult(isValid, errors, validConcepts, totalConcepts) ==
  [isValid |-> isValid, errors |-> errors, validConcepts |-> validConcepts,
   totalConcepts |-> totalConcepts]

\* validateJsonContent without its outer catch: what forEach throws leaves
\* the function, and no result comes back
validateJsonContent_NoCatch(content, now) ==
  IF content.kind # "json"
    THEN ValidationResult(FALSE, <<ValidationError("error", "JSON parsing failed", "", -1)>>, <<>>, 0)
  ELSE IF content.v.t # "array"
    THEN ValidationResult(FALSE,
           <<ValidationError("error", "Root element must be an array", "", -1)>>, <<>>, 0)
  ELSE IF Len(content.v.items) = 0
    THEN ValidationResult(FALSE,
           <<ValidationError("warning", "The file contains no concepts", "", -1)>>, <<>>, 0)
  ELSE
    LET parsedData == content.v.items
        acc == forEachConcept(parsedData, 1,
                 [errors |-> <<>>, validConcepts |-> <<>>, seenTitles |-> {}, threw |-> FALSE], now)
    IN IF acc.threw THEN Null
       ELSE IF IsValidFlag(acc.validConcepts, acc.errors)
         THEN ValidationResult(TRUE,
                acc.errors \o <<ValidationError("info", "Validation successful", "", -1)>>,
                acc.validConcepts, Len(parsedData))
       ELSE ValidationResult(FALSE, acc.errors, acc.validConcepts, Len(parsedData))

\* validateJsonContent that takes a lone object for an array of one
validateJsonContent_WrapsObject(content, now) ==
  IF content.kind # "json"
    THEN ValidationResult(FALSE, <<ValidationError("error", "JSON parsing failed", "", -1)>>, <<>>, 0)
  ELSE
    LET parsedData == IF content.v.t = "array" THEN content.v.items ELSE <<content.v>>
        acc == forEachConcept(parsedData, 1,
                 [errors |-> <<>>, validConcepts |-> <<>>, seenTitles |-> {}, threw |-> FALSE], now)
    IN IF Len(parsedData) = 0
         THEN ValidationResult(FALSE,
                <<ValidationError("warning", "The file contains no concepts", "", -1)>>, <<>>, 0)
       ELSE IF acc.threw
         THEN ValidationResult(FALSE,
                acc.errors \o <<ValidationError("error", "Unexpected validation error", "", -1)>>,
                <<>>, Len(parsedData))
       ELSE IF IsValidFlag(acc.validConcepts, acc.errors)
         THEN ValidationResult(TRUE,
                acc.errors \o <<ValidationError("info", "Validation successful", "", -1)>>,
                acc.validConcepts, Len(parsedData))
       ELSE ValidationResult(FALSE, acc.errors, acc.validConcepts, Len(parsedData))

\* validateJsonContent without the parsedData.length === 0 check
validateJsonContent_NoEmptyCheck(content, now) ==
  IF content.kind # "json"
    THEN ValidationResult(FALSE, <<ValidationError("error", "JSON parsing failed", "", -1)>>, <<>>, 0)
  ELSE IF content.v.t # "array"
    THEN ValidationResult(FALSE,
           <<ValidationError("error", "Root element must be an array", "", -1)>>, <<>>, 0)
  ELSE
    LET parsedData == content.v.items
        acc == forEachConcept(parsedData, 1,
                 [errors |-> <<>>, validConcepts |-> <<>>, seenTitles |-> {}, threw |-> FALSE], now)
    IN IF acc.threw
         THEN ValidationResult(FALSE,
                acc.errors \o <<ValidationError("error", "Unexpected validation error", "", -1)>>,
                <<>>, Len(parsedData))
       ELSE IF IsValidFlag(acc.validConcepts, acc.errors)
         THEN ValidationResult(TRUE,
                acc.errors \o <<ValidationError("info", "Validation successful", "", -1)>>,
                acc.validConcepts, Len(parsedData))
       ELSE ValidationResult(FALSE, acc.errors, acc.validConcepts, Len(parsedData))

validateJsonContent(content, now) ==
  IF content.kind # "json"
    THEN ValidationResult(FALSE, <<ValidationError("error", "JSON parsing failed", "", -1)>>, <<>>, 0)
  ELSE IF content.v.t # "array"
    THEN ValidationResult(FALSE,
           <<ValidationError("error", "Root element must be an array", "", -1)>>, <<>>, 0)
  ELSE IF Len(content.v.items) = 0
    THEN ValidationResult(FALSE,
           <<ValidationError("warning", "The file contains no concepts", "", -1)>>, <<>>, 0)
  ELSE
    LET parsedData == content.v.items
        acc == forEachConcept(parsedData, 1,
                 [errors |-> <<>>, validConcepts |-> <<>>, seenTitles |-> {}, threw |-> FALSE], now)
    IN IF acc.threw
         THEN ValidationResult(FALSE,
                acc.errors \o <<ValidationError("error", "Unexpected validation error", "", -1)>>,
                <<>>, Len(parsedData))
       ELSE IF IsValidFlag(acc.validConcepts, acc.errors)
         THEN ValidationResult(TRUE,
                acc.errors \o <<ValidationError("info", "Validation successful", "", -1)>>,
                acc.validConcepts, Len(parsedData))
       ELSE ValidationResult(FALSE, acc.errors, acc.validConcepts, Len(parsedData))


(* --------------------------- the import files ------------------------- *)
EmptyObject == [key \in Keys |-> Undef]

With(o, key, val) == Obj([o.f EXCEPT ![key] = val])

\* a well-formed entry: the four required fields and nothing else
BaseEntry ==
  Obj([EmptyObject EXCEPT !["title"] = Str(<<"A">>), !["topic"] = Str(<<"t">>),
                          !["definition"] = Str(<<"d">>), !["keyword"] = Str(<<"k">>)])

GoodTitles == {<<"A">>, <<"a">>, <<" ", "a">>, <<"b">>}

WellFormedEntries ==
  {With(BaseEntry, "title", Str(ti)) : ti \in GoodTitles}
    \cup {With(With(With(BaseEntry, "title", Str(<<"B">>)), "topicID", Num(2)),
               "whenToUse", Str(<<"x", " ">>))}

BadRequiredEntries ==
  {With(BaseEntry, requiredFields[k], v) :
     k \in 1..Len(requiredFields), v \in {Undef, Str(<<" ">>)}}
    \cup {With(BaseEntry, "title", v) : v \in {Str(<<>>), Null, Num(5)}}

TopicIDEntries ==
  {With(BaseEntry, "topicID", v) : v \in {Num(0), Str(<<"2">>), Null}}

OptionalEntries ==
  {With(BaseEntry, "detailedExplanation", v) : v \in {Str(<<" ", "x", " ">>), Null, Num(5)}}
    \cup {With(BaseEntry, "differences", Num(0))}

UnknownFieldEntries ==
  {With(BaseEntry, "extra", Str(<<"x">>)), With(BaseEntry, "_id", Str(<<"i">>))}

DateEntries ==
  {With(With(BaseEntry, "createdAt", Str(toISOString(0))), "updatedAt", Str(<<"x">>))}

MixedEntries ==
  {With(With(BaseEntry, "title", Str(<<"a">>)), "keyword", Undef),
   With(With(BaseEntry, "keyword", Undef), "whyNeed", Num(5)),
   With(With(BaseEntry, "topic", Undef), "keyword", Undef)}

NonObjectEntries == {Null, Num(3), Str(<<"A">>), Arr(<<>>)}

\* what an entry of a selected file may be
FileEntries ==
  WellFormedEntries \cup BadRequiredEntries \cup TopicIDEntries \cup OptionalEntries
    \cup UnknownFieldEntries \cup DateEntries \cup MixedEntries \cup NonObjectEntries

SeqsUpTo(S, n) == UNION {[1..k -> S] : k \in 0..n}

\* the texts a selected file may hold
FileContents ==
  {Blank, Garbage, Json(BaseEntry), Json(Num(1)), Json(Null)}
    \cup {Json(Arr(items)) : items \in SeqsUpTo(FileEntries, MaxBatch)}

(* ------------------------------- JSON --------------------------------- *)
\* the value JSON.stringify writes for x: a Date becomes its ISO string,
\* an Invalid Date becomes null
RECURSIVE ToJSON(_)
ToJSON(x) ==
  CASE x.t = "date" -> IF x.v = -1 THEN Null ELSE Str(toISOString(x.v))
    [] x.t = "object" -> Obj([key \in Keys |-> ToJSON(x.f[key])])
    [] x.t = "array" -> Arr([k \in 1..Len(x.items) |-> ToJSON(x.items[k])])
    [] OTHER -> x

JSONstringify(x) == Json(ToJSON(x))

\* JSON.parse of a text JSON.stringify wrote
JSONparse(text) == text.v

(* ------------------------------ the store ----------------------------- *)
\* last identifier the store hands out
MaxId == 2

NewId(n) == Str(<<"i", Digits[n + 1]>>)

\* paths of ConceptSchema declared String with trim: true
SchemaTrimmed == {"topic", "title", "keyword"}
\* paths of ConceptSchema declared String
SchemaStrings == TrimmedFields
\* paths of ConceptSchema declared required
SchemaRequired == {"topicID", "topic", "title", "definition", "keyword"}

\* the value a path of the schema holds after the setters ran
SchemaCast(key, x) ==
  IF key \in SchemaTrimmed /\ x.t = "string" THEN Str(trim(x.v))
  ELSE IF x.t = "null" THEN Undef
  ELSE x

\* document validation: required paths are set (a required String is not
\* empty) and every path holds a value of its type
SchemaValid(rec) ==
  /\ \A key \in SchemaRequired : SchemaCast(key, Get(rec, key)) \notin {Undef, Str(<<>>)}
  /\ \A key \in SchemaStrings : SchemaCast(key, Get(rec, key)).t \in {"undefined", "string"}
  /\ Get(rec, "topicID").t \in {"undefined", "null", "number"}

\* the document the model builds from a payload record: unknown paths are
\* dropped, an identifier is generated when none came, timestamps are set
\* when absent
NewDocument(rec, id, time) ==
  Obj([key \in Keys |->
    CASE key = "_id" -> IF Truthy(Get(rec, "_id")) THEN Get(rec, "_id") ELSE id
      [] key \in {"createdAt", "updatedAt"} ->
           IF Truthy(Get(rec, key)) /\ NewDate(Get(rec, key)) # InvalidDate
             THEN NewDate(Get(rec, key)) ELSE DateVal(time)
      [] key \in SchemaRequired \cup SchemaStrings -> SchemaCast(key, Get(rec, key))
      [] OTHER -> Undef])

\* how many records of a payload come without identifier
RECURSIVE IdsNeeded(_)
IdsNeeded(recs) ==
  IF recs = <<>> THEN 0
  ELSE (IF Truthy(Get(Head(recs), "_id")) THEN 0 ELSE 1) + IdsNeeded(Tail(recs))

\* Concept.insertMany(concepts) on documents that passed validation
RECURSIVE insertMany(_, _, _)
insertMany(recs, next, time) ==
  IF recs = <<>> THEN <<>>
  ELSE <<NewDocument(Head(recs), NewId(next), time)>>
         \o insertMany(Tail(recs),
                       IF Truthy(Get(Head(recs), "_id")) THEN next ELSE next + 1, time)

Injective(p) == \A a, b \in DOMAIN p : p[a] = p[b] => a = b

\* Concept.find({}).sort({ createdAt: -1 }): the documents, newest first;
\* documents of equal createdAt come in an order the store picks
FindSorted(docs) ==
  {[k \in 1..Len(docs) |-> docs[p[k]]] :
     p \in {q \in [1..Len(docs) -> 1..Len(docs)] :
              /\ Injective(q)
              /\ \A a, b \in 1..Len(docs) :
                   a < b => docs[q[a]].f["createdAt"].v >= docs[q[b]].f["createdAt"].v}}

(* ------------------------------- state -------------------------------- *)
VARIABLES
  loading,           \* HomePage: the initial load has not finished
  concepts,          \* HomePage: the in-memory local set
  cache,             \* localStorage item "concepts": NoItem or a text
  reading,           \* the text of the file the FileReader is reading, or NoFile
  jsonPreview,       \* SettingsPanel: text of the staged file, Blank for ""
  validationResult,  \* SettingsPanel: the staged ValidationResult or Null
  isLoading,         \* SettingsPanel: busy flag per operation kind
  toast,             \* the last outcome shown
  now,               \* the clock new Date() reads
  store,             \* the documents of the Concept collection, oldest first
  nextId,            \* identifiers handed out so far
  push,              \* the handleSyncToDatabase call in flight: where it stands,
                     \* the request body, the concepts of its closure, the
                     \* response, and (history) the store as the request found it
  pull,              \* the handleSyncFromDatabase call in flight
  showForm,          \* ConceptList: the form is open
  editingConcept,    \* ConceptList: the concept under edit, or undefined
  listIsLoading,     \* ConceptList: isLoading, the busy flag of the form
  save,              \* the ConceptList.handleSave call in flight
  deletes            \* the ConceptList.handleDelete calls in flight

vars == <<loading, concepts, cache, reading, jsonPreview, validationResult,
          isLoading, toast, now, store, nextId, push, pull,
          showForm, editingConcept, listIsLoading, save, deletes>>

listVars == <<showForm, editingConcept, listIsLoading, save, deletes>>

importVars == <<reading, jsonPreview, validationResult>>
localVars == <<concepts, cache>>
storeVars == <<store, nextId>>
callVars == <<push, pull>>

NoItem == [kind |-> "none"]
NoFile == [kind |-> "nofile"]
Idle == [pc |-> "idle"]

\* a toast: title, the fixed part of its description, variant, and the
\* count its description gives (-1 when it gives none)
Toast(title, description, variant, count) ==
  [title |-> title, description |-> description, variant |-> variant, count |-> count]
NoToast == Toast("", "", "", -1)

Init ==
  /\ loading = TRUE
  /\ concepts = <<>>
  /\ cache = NoItem
  /\ reading = NoFile
  /\ jsonPreview = Blank
  /\ validationResult = Null
  /\ isLoading = [syncTo |-> FALSE, syncFrom |-> FALSE, import |-> FALSE, export |-> FALSE]
  /\ toast = NoToast
  /\ now = 0
  /\ store = <<>>
  /\ nextId = 0
  /\ push = Idle
  /\ pull = Idle
  /\ showForm = FALSE
  /\ editingConcept = Undef
  /\ listIsLoading = FALSE
  /\ save = Idle
  /\ deletes = {}

\* HomePage.loadConcepts: the cached set when there is one, else the
\* store's; the page shows only a spinner until it is over
loadConcepts ==
  /\ loading
  /\ loading' = FALSE
  /\ IF cache # NoItem
       THEN concepts' = JSONparse(cache) .items /\ UNCHANGED cache
       ELSE \/ \E data \in FindSorted(store) :
                 /\ concepts' = ToJSON(Arr(data)).items
                 /\ cache' = JSONstringify(Arr(ToJSON(Arr(data)).items))
            \/ UNCHANGED localVars
  /\ UNCHANGED <<listVars, importVars, isLoading, toast, now, storeVars, callVars>>

\* last moment the clock reaches
MaxNow == 2

\* time passes between two events
Tick ==
  /\ now < MaxNow
  /\ now' = now + 1
  /\ UNCHANGED <<listVars, loading, localVars, importVars, isLoading, toast, storeVars, callVars>>

(* ------------------------------- export ------------------------------- *)
\* handleExport: it runs to its finally block without a pause, so the
\* export flag it sets is cleared by the time the handler is over; the
\* download may throw
handleExport ==
  /\ ~loading
  /\ ~isLoading.export
  /\ IF Len(concepts) = 0
       THEN toast' = Toast("Nothing to export", "no concepts to export", "destructive", -1)
       ELSE \/ toast' = Toast("Export successful", "to JSON file", "default", Len(concepts))
            \/ toast' = Toast("Export failed", "Export failed", "destructive", -1)
  /\ isLoading' = [isLoading EXCEPT !.export = FALSE]
  /\ UNCHANGED <<listVars, loading, localVars, importVars, now, storeVars, callVars>>

(* ------------------------- import: file to preview -------------------- *)
\* handleImport for a .json file within the size limit, up to readAsText;
\* the file input and its button are disabled while a read is pending or a
\* file is staged
handleImport(content) ==
  /\ ~loading
  /\ ~isLoading.import
  /\ jsonPreview = Blank
  /\ reading = NoFile
  /\ reading' = content
  /\ isLoading' = [isLoading EXCEPT !.import = TRUE]
  /\ UNCHANGED <<listVars, loading, localVars, jsonPreview, validationResult, toast, now,
                 storeVars, callVars>>

\* reader.onload
readerOnload ==
  /\ reading # NoFile
  /\ reading' = NoFile
  /\ isLoading' = [isLoading EXCEPT !.import = FALSE]
  /\ IF reading = Blank
       THEN /\ toast' = Toast("File read error", "Failed to read the selected file", "destructive", -1)
            /\ UNCHANGED <<jsonPreview, validationResult>>
       ELSE /\ jsonPreview' = reading
            /\ validationResult' = validateJsonContent(reading, now)
            /\ UNCHANGED toast
  /\ UNCHANGED <<listVars, loading, localVars, now, storeVars, callVars>>

\* reader.onerror
readerOnerror ==
  /\ reading # NoFile
  /\ reading' = NoFile
  /\ isLoading' = [isLoading EXCEPT !.import = FALSE]
  /\ toast' = Toast("File read error", "Failed to read the selected file", "destructive", -1)
  /\ UNCHANGED <<listVars, loading, localVars, jsonPreview, validationResult, now, storeVars, callVars>>

handleCancelImport ==
  /\ jsonPreview # Blank
  /\ jsonPreview' = Blank
  /\ validationResult' = Null
  /\ UNCHANGED <<listVars, loading, localVars, reading, isLoading, toast, now, storeVars, callVars>>

(* --------------------------- import-commit ---------------------------- *)
\* existingTitles without toLowerCase
existingTitles_CaseSensitive(existing) ==
  {existing[k].f["title"].v : k \in 1..Len(existing)}

\* new Set(concepts.map((c) => c.title.toLowerCase()))
existingTitles(existing) ==
  {toLowerCase(existing[k].f["title"].v) : k \in 1..Len(existing)}

\* newConcepts without the filter
newConcepts_NoFilter(existing, importedConcepts) == importedConcepts

\* importedConcepts.filter((c) => !existingTitles.has(c.title.toLowerCase()))
newConcepts(existing, importedConcepts) ==
  LET Fresh(c) == toLowerCase(c.f["title"].v) \notin existingTitles(existing)
  IN SelectSeq(importedConcepts, Fresh)

\* [...concepts, ...newConcepts]
updatedConcepts(existing, importedConcepts) ==
  existing \o newConcepts(existing, importedConcepts)

\* handleValidatedImport that commits the accepted records of whatever
\* result is staged
handleValidatedImport_IgnoresValidity ==
  /\ ~loading
  /\ validationResult # Null
  /\ ~isLoading.import
  /\ IF Len(validationResult.validConcepts) = 0
       THEN /\ toast' = Toast("Cannot import", "Please fix all validation errors", "destructive", -1)
            /\ UNCHANGED <<localVars, jsonPreview, validationResult>>
       ELSE /\ concepts' = updatedConcepts(concepts, validationResult.validConcepts)
            /\ cache' = JSONstringify(Arr(updatedConcepts(concepts, validationResult.validConcepts)))
            /\ toast' = Toast("Import successful", "new concepts", "default",
                              Len(newConcepts(concepts, validationResult.validConcepts)))
            /\ jsonPreview' = Blank
            /\ validationResult' = Null
  /\ UNCHANGED <<listVars, loading, reading, isLoading, now, storeVars, callVars>>

\* handleValidatedImport; its button shows only for a valid staged result
handleValidatedImport ==
  /\ ~loading
  /\ validationResult # Null
  /\ validationResult.isValid
  /\ ~isLoading.import
  /\ IF ~validationResult.isValid \/ Len(validationResult.validConcepts) = 0
       THEN /\ toast' = Toast("Cannot import", "Please fix all validation errors", "destructive", -1)
            /\ UNCHANGED <<localVars, jsonPreview, validationResult>>
       ELSE /\ concepts' = updatedConcepts(concepts, validationResult.validConcepts)
            /\ cache' = JSONstringify(Arr(updatedConcepts(concepts, validationResult.validConcepts)))
            /\ toast' = Toast("Import successful", "new concepts", "default",
                              Len(newConcepts(concepts, validationResult.validConcepts)))
            /\ jsonPreview' = Blank
            /\ validationResult' = Null
  /\ UNCHANGED <<listVars, loading, reading, isLoading, now, storeVars, callVars>>

(* -------------------------------- push -------------------------------- *)
\* a response of the sync route
Response(success, error, details, count, data) ==
  [success |-> success, error |-> error, details |-> details, count |-> count, data |-> data]

NoResponse == Response(FALSE, "", "", -1, <<>>)

\* the 503 and the 500 of the sync route, and a fetch that rejected
ConnectionFailed == Response(FALSE, "Database connection failed", "Unable to connect to MongoDB", -1, <<>>)
ServerError(error) == Response(FALSE, error, "An unexpected error occurred", -1, <<>>)
FetchRejected == Response(FALSE, "Failed to fetch", "", -1, <<>>)

\* the description of the "Sync failed" toast: the message thrown is
\* result.details || result.error, or that of the rejected fetch
errorMessage(result) ==
  LET message == IF result.details # "" THEN result.details ELSE result.error
  IN IF message = "Failed to fetch" THEN "Network error"
     ELSE IF message = "Database connection failed" THEN "Database connection failed."
     ELSE message

\* handleSyncToDatabase without the concepts.length === 0 check
handleSyncToDatabase_NoEmptyCheck ==
  /\ ~loading
  /\ ~isLoading.syncTo
  /\ nextId + IdsNeeded(concepts) <= MaxId
  /\ isLoading' = [isLoading EXCEPT !.syncTo = TRUE]
  /\ push' = [pc |-> "requested", body |-> JSONstringify(Arr(concepts)),
              closure |-> concepts, result |-> NoResponse, prior |-> store]
  /\ UNCHANGED <<listVars, toast, loading, localVars, importVars, now, storeVars, pull>>

\* handleSyncToDatabase up to the fetch
handleSyncToDatabase ==
  /\ ~loading
  /\ ~isLoading.syncTo
  /\ IF Len(concepts) = 0
       THEN /\ toast' = Toast("Nothing to sync", "no concepts to sync", "destructive", -1)
            /\ UNCHANGED <<isLoading, push>>
       ELSE /\ nextId + IdsNeeded(concepts) <= MaxId
            /\ isLoading' = [isLoading EXCEPT !.syncTo = TRUE]
            /\ push' = [pc |-> "requested", body |-> JSONstringify(Arr(concepts)),
                        closure |-> concepts, result |-> NoResponse, prior |-> store]
            /\ UNCHANGED toast
  /\ UNCHANGED <<listVars, loading, localVars, importVars, now, storeVars, pull>>

\* the route's own check: the lowest index whose entry has a falsy required
\* field or is null (reading a field of null throws), 0 if none
RECURSIVE FirstInvalid(_, _)
FirstInvalid(payload, i) ==
  IF i > Len(payload) THEN 0
  ELSE IF \E k \in 1..Len(requiredFields) : ~Truthy(Get(payload[i], requiredFields[k]))
    THEN i
  ELSE FirstInvalid(payload, i + 1)

\* deleteMany that removes nothing
deleteMany_Nothing(docs) == docs

\* Concept.deleteMany({})
deleteMany(docs) == <<>>

\* PostClear without Concept.deleteMany({})
PostClear_NoDelete ==
  /\ push.pc = "requested"
  /\ push' = [push EXCEPT !.pc = "cleared"]
  /\ UNCHANGED <<listVars, loading, localVars, importVars, isLoading, toast, now, storeVars, pull>>

\* PostClear that clears the collection before it looks at the payload
PostClear_ClearsFirst ==
  /\ push.pc = "requested"
  /\ store' = deleteMany(store)
  /\ LET payload == JSONparse(push.body)
     IN IF payload.t # "array"
          THEN push' = [push EXCEPT !.pc = "responded",
                          !.result = Response(FALSE, "Invalid data format",
                                              "Expected an array of concepts", -1, <<>>)]
        ELSE IF FirstInvalid(payload.items, 1) # 0
          THEN push' = [push EXCEPT !.pc = "responded",
                          !.result = Response(FALSE, "Invalid concept data",
                                              "is missing required field",
                                              FirstInvalid(payload.items, 1) - 1, <<>>)]
        ELSE push' = [push EXCEPT !.pc = "cleared"]
  /\ UNCHANGED <<listVars, loading, localVars, importVars, isLoading, toast, now, nextId, pull>>

\* sync POST from the request to Concept.deleteMany({})
PostClear ==
  /\ push.pc = "requested"
  /\ LET payload == JSONparse(push.body)
     IN IF payload.t # "array"
          THEN /\ push' = [push EXCEPT !.pc = "responded",
                             !.result = Response(FALSE, "Invalid data format",
                                                 "Expected an array of concepts", -1, <<>>)]
               /\ UNCHANGED store
        ELSE IF FirstInvalid(payload.items, 1) # 0
                  /\ payload.items[FirstInvalid(payload.items, 1)].t = "null"
          THEN /\ push' = [push EXCEPT !.pc = "responded",
                             !.result = ServerError("Internal server error")]
               /\ UNCHANGED store
        ELSE IF FirstInvalid(payload.items, 1) # 0
          THEN /\ push' = [push EXCEPT !.pc = "responded",
                             !.result = Response(FALSE, "Invalid concept data",
                                                 "is missing required field",
                                                 FirstInvalid(payload.items, 1) - 1, <<>>)]
               /\ UNCHANGED store
        ELSE /\ push' = [push EXCEPT !.pc = "cleared"]
             /\ store' = deleteMany(store)
  /\ UNCHANGED <<listVars, loading, localVars, importVars, isLoading, toast, now, nextId, pull>>

\* sync POST from Concept.insertMany(concepts) to the response
PostInsert ==
  /\ push.pc = "cleared"
  /\ LET payload == JSONparse(push.body).items
     IN IF \A k \in 1..Len(payload) : SchemaValid(payload[k])
          THEN /\ store' = store \o insertMany(payload, nextId, now)
               /\ nextId' = nextId + IdsNeeded(payload)
               /\ push' = [push EXCEPT !.pc = "responded",
                             !.result = Response(TRUE, "", "", Len(payload), <<>>)]
          ELSE /\ push' = [push EXCEPT !.pc = "responded",
                             !.result = ServerError("Internal server error")]
               /\ UNCHANGED storeVars
  /\ UNCHANGED <<listVars, loading, localVars, importVars, isLoading, toast, now, pull>>

\* sync POST when dbConnect or a store call throws
PostFails ==
  /\ push.pc \in {"requested", "cleared"}
  /\ \E failure \in {ConnectionFailed, ServerError("Internal server error")} :
       push' = [push EXCEPT !.pc = "responded", !.result = failure]
  /\ UNCHANGED <<listVars, loading, localVars, importVars, isLoading, toast, now, storeVars, pull>>

\* the fetch of handleSyncToDatabase rejects
PushFetchFails ==
  /\ push.pc = "requested"
  /\ push' = [push EXCEPT !.pc = "responded", !.result = FetchRejected]
  /\ UNCHANGED <<listVars, loading, localVars, importVars, isLoading, toast, now, storeVars, pull>>

\* PushReport that empties the local set once the store has taken it
PushReport_ClearsLocal ==
  /\ push.pc = "responded"
  /\ toast' = IF push.result.success
                THEN Toast("Sync successful", "to database", "default", push.result.count)
                ELSE Toast("Sync failed", errorMessage(push.result), "destructive", -1)
  /\ IF push.result.success
       THEN concepts' = <<>> /\ cache' = JSONstringify(Arr(<<>>))
       ELSE UNCHANGED localVars
  /\ isLoading' = [isLoading EXCEPT !.syncTo = FALSE]
  /\ push' = Idle
  /\ UNCHANGED <<listVars, loading, importVars, now, storeVars, pull>>

\* handleSyncToDatabase from the response on
PushReport ==
  /\ push.pc = "responded"
  /\ toast' = IF push.result.success
                THEN Toast("Sync successful", "to database", "default", push.result.count)
                ELSE Toast("Sync failed", errorMessage(push.result), "destructive", -1)
  /\ isLoading' = [isLoading EXCEPT !.syncTo = FALSE]
  /\ push' = Idle
  /\ UNCHANGED <<listVars, loading, localVars, importVars, now, storeVars, pull>>

(* ----------------------- the sync route on its own -------------------- *)
\* an entry the schema takes: the four required texts and a topicID
RouteEntry(title) == With(With(BaseEntry, "title", Str(title)), "topicID", Num(1))

\* what the concepts member of a request body may be
RoutePayloads ==
  {Undef, Num(1), RouteEntry(<<"A">>),
   Arr(<<>>),
   Arr(<<BaseEntry>>),
   Arr(<<RouteEntry(<<"A">>)>>),
   Arr(<<RouteEntry(<<"A">>), RouteEntry(<<"B">>)>>),
   Arr(<<With(RouteEntry(<<"B">>), "_id", Str(<<"x">>))>>),
   Arr(<<With(RouteEntry(<<"A">>), "_id", Str(<<"y">>)), RouteEntry(<<"B">>)>>),
   Arr(<<RouteEntry(<<"A">>), With(RouteEntry(<<"B">>), "keyword", Undef)>>),
   Arr(<<With(RouteEntry(<<"A">>), "title", Str(<<>>)), With(RouteEntry(<<"B">>), "topic", Undef)>>),
   Arr(<<With(RouteEntry(<<"A">>), "_id", Str(<<"y">>)), With(RouteEntry(<<"B">>), "_id", Str(<<"x">>)),
         With(RouteEntry(<<"A">>), "definition", Num(0))>>),
   Arr(<<RouteEntry(<<"A">>), Null, With(RouteEntry(<<"B">>), "topic", Undef)>>),
   Arr(<<Num(3)>>)}

\* a client sends POST /api/concepts/sync with a body of its own
PostRequest(payload) ==
  /\ push = Idle
  /\ payload.t = "array" => nextId + IdsNeeded(payload.items) <= MaxId
  /\ push' = [pc |-> "requested", body |-> Json(payload), closure |-> <<>>,
              result |-> NoResponse, prior |-> store]
  /\ UNCHANGED <<listVars, loading, localVars, importVars, isLoading, toast, now, storeVars, pull>>

\* the response has gone back to that client
PostResponse ==
  /\ push.pc = "responded"
  /\ push' = Idle
  /\ UNCHANGED <<listVars, loading, localVars, importVars, isLoading, toast, now, storeVars, pull>>

\* the sync POST under requests of any client
NextR ==
  \/ \E payload \in RoutePayloads : PostRequest(payload)
  \/ PostClear
  \/ PostInsert
  \/ PostFails
  \/ PostResponse

SpecR == Init /\ [][NextR]_vars

(* -------------------------------- pull -------------------------------- *)
\* handleSyncFromDatabase up to the fetch
handleSyncFromDatabase ==
  /\ ~loading
  /\ ~isLoading.syncFrom
  /\ isLoading' = [isLoading EXCEPT !.syncFrom = TRUE]
  /\ pull' = [pc |-> "requested"]
  /\ UNCHANGED <<listVars, loading, localVars, importVars, toast, now, storeVars, push>>

\* sync GET
GetAll ==
  /\ pull.pc = "requested"
  /\ \E found \in FindSorted(store) :
       pull' = [pc |-> "responded",
                result |-> Response(TRUE, "", "", Len(found), ToJSON(Arr(found)).items)]
  /\ UNCHANGED <<listVars, loading, localVars, importVars, isLoading, toast, now, storeVars, push>>

\* sync GET when dbConnect or find throws, or the fetch rejects
GetFails ==
  /\ pull.pc = "requested"
  /\ \E failure \in {ConnectionFailed, ServerError("Failed to retrieve concepts"), FetchRejected} :
       pull' = [pc |-> "responded", result |-> failure]
  /\ UNCHANGED <<listVars, loading, localVars, importVars, isLoading, toast, now, storeVars, push>>

\* PullReport without the databaseConcepts.length === 0 check
PullReport_ReplacesOnEmpty ==
  /\ pull.pc = "responded"
  /\ IF pull.result.success
       THEN /\ concepts' = pull.result.data
            /\ cache' = JSONstringify(Arr(pull.result.data))
            /\ toast' = Toast("Sync successful", "from database", "default", Len(pull.result.data))
       ELSE /\ toast' = Toast("Sync failed", errorMessage(pull.result), "destructive", -1)
            /\ UNCHANGED localVars
  /\ isLoading' = [isLoading EXCEPT !.syncFrom = FALSE]
  /\ pull' = Idle
  /\ UNCHANGED <<listVars, loading, importVars, now, storeVars, push>>

\* PullReport that appends the fetched records to the local set
PullReport_Merges ==
  /\ pull.pc = "responded"
  /\ IF pull.result.success
       THEN IF Len(pull.result.data) = 0
              THEN /\ toast' = Toast("No data found", "No concepts found in the database", "default", -1)
                   /\ UNCHANGED localVars
              ELSE /\ concepts' = concepts \o pull.result.data
                   /\ cache' = JSONstringify(Arr(concepts \o pull.result.data))
                   /\ toast' = Toast("Sync successful", "from database", "default", Len(pull.result.data))
       ELSE /\ toast' = Toast("Sync failed", errorMessage(pull.result), "destructive", -1)
            /\ UNCHANGED localVars
  /\ isLoading' = [isLoading EXCEPT !.syncFrom = FALSE]
  /\ pull' = Idle
  /\ UNCHANGED <<listVars, loading, importVars, now, storeVars, push>>

\* PullReport whose "No data found" return skips the finally block
PullReport_NoFinally ==
  /\ pull.pc = "responded"
  /\ IF pull.result.success
       THEN IF Len(pull.result.data) = 0
              THEN /\ toast' = Toast("No data found", "No concepts found in the database", "default", -1)
                   /\ UNCHANGED <<localVars, isLoading>>
              ELSE /\ concepts' = pull.result.data
                   /\ cache' = JSONstringify(Arr(pull.result.data))
                   /\ toast' = Toast("Sync successful", "from database", "default", Len(pull.result.data))
                   /\ isLoading' = [isLoading EXCEPT !.syncFrom = FALSE]
       ELSE /\ toast' = Toast("Sync failed", errorMessage(pull.result), "destructive", -1)
            /\ isLoading' = [isLoading EXCEPT !.syncFrom = FALSE]
            /\ UNCHANGED localVars
  /\ pull' = Idle
  /\ UNCHANGED <<listVars, loading, importVars, now, storeVars, push>>

\* handleSyncFromDatabase from the response on
PullReport ==
  /\ pull.pc = "responded"
  /\ IF pull.result.success
       THEN IF Len(pull.result.data) = 0
              THEN /\ toast' = Toast("No data found", "No concepts found in the database", "default", -1)
                   /\ UNCHANGED localVars
              ELSE /\ concepts' = pull.result.data
                   /\ cache' = JSONstringify(Arr(pull.result.data))
                   /\ toast' = Toast("Sync successful", "from database", "default", Len(pull.result.data))
       ELSE /\ toast' = Toast("Sync failed", errorMessage(pull.result), "destructive", -1)
            /\ UNCHANGED localVars
  /\ isLoading' = [isLoading EXCEPT !.syncFrom = FALSE]
  /\ pull' = Idle
  /\ UNCHANGED <<listVars, loading, importVars, now, storeVars, push>>

(* ------------------------ the form of ConceptList --------------------- *)
\* the fields of ConceptForm's formData
formFields == {"topicID", "topic", "title", "definition", "detailedExplanation",
               "whenToUse", "whyNeed", "codeExample", "keyword", "differences"}

\* formData as the form submits it: every input is marked required, so no
\* text is the empty string, and topicID is Number.parseInt(value) || 1
FormData(title, definition) ==
  Obj([key \in Keys |->
    CASE key = "topicID" -> Num(1)
      [] key = "title" -> Str(title)
      [] key = "definition" -> Str(definition)
      [] key = "topic" -> Str(<<"t">>)
      [] key = "keyword" -> Str(<<"k">>)
      [] key \in formFields -> Str(<<"x">>)
      [] OTHER -> Undef])

\* what a user types into the form: a concept, and a title of one space
FormInputs == {FormData(<<"C">>, <<"d">>), FormData(<<" ">>, <<"d">>)}

\* the same, and a definition of one space
ListInputs == FormInputs \cup {FormData(<<"C">>, <<" ">>)}

\* the "Add Concept" button: setShowForm(true)
openForm ==
  /\ ~loading
  /\ ~showForm
  /\ showForm' = TRUE
  /\ UNCHANGED <<loading, localVars, importVars, isLoading, toast, now, storeVars, callVars,
                 editingConcept, listIsLoading, save, deletes>>

\* ConceptList.handleEdit on the card of a concept; the open form covers the cards
handleEdit(concept) ==
  /\ ~loading
  /\ ~showForm
  /\ \E k \in 1..Len(concepts) : concepts[k] = concept
  /\ editingConcept' = concept
  /\ showForm' = TRUE
  /\ UNCHANGED <<loading, localVars, importVars, isLoading, toast, now, storeVars, callVars,
                 listIsLoading, save, deletes>>

\* ConceptList.handleCancel
handleCancel ==
  /\ showForm
  /\ showForm' = FALSE
  /\ editingConcept' = Undef
  /\ UNCHANGED <<loading, localVars, importVars, isLoading, toast, now, storeVars, callVars,
                 listIsLoading, save, deletes>>

\* handleSave without the disabled submit button
handleSave_NoBusyFlag(conceptData) ==
  /\ ~loading
  /\ showForm
  /\ Truthy(Get(editingConcept, "_id")) \/ nextId < MaxId
  /\ listIsLoading' = TRUE
  /\ save' = [pc |-> "requested",
              method |-> IF Truthy(Get(editingConcept, "_id")) THEN "PUT" ELSE "POST",
              id |-> Get(editingConcept, "_id"),
              body |-> JSONstringify(conceptData),
              closure |-> concepts,
              result |-> NoResponse]
  /\ UNCHANGED <<loading, localVars, importVars, isLoading, toast, now, storeVars, callVars,
                 showForm, editingConcept, deletes>>

\* the form's submit, which is disabled while isLoading, and
\* ConceptList.handleSave up to the fetch
handleSave(conceptData) ==
  /\ ~loading
  /\ showForm
  /\ ~listIsLoading
  /\ Truthy(Get(editingConcept, "_id")) \/ nextId < MaxId
  /\ listIsLoading' = TRUE
  /\ save' = [pc |-> "requested",
              method |-> IF Truthy(Get(editingConcept, "_id")) THEN "PUT" ELSE "POST",
              id |-> Get(editingConcept, "_id"),
              body |-> JSONstringify(conceptData),
              closure |-> concepts,
              result |-> NoResponse]
  /\ UNCHANGED <<loading, localVars, importVars, isLoading, toast, now, storeVars, callVars,
                 showForm, editingConcept, deletes>>

\* POST /api/concepts: Concept.create(body)
CreateConcept ==
  /\ save.pc = "requested"
  /\ save.method = "POST"
  /\ LET body == JSONparse(save.body)
     IN IF SchemaValid(body)
          THEN /\ store' = Append(store, NewDocument(body, NewId(nextId), now))
               /\ nextId' = IF Truthy(Get(body, "_id")) THEN nextId ELSE nextId + 1
               /\ save' = [save EXCEPT !.pc = "responded",
                             !.result = Response(TRUE, "", "", -1,
                                          <<ToJSON(NewDocument(body, NewId(nextId), now))>>)]
          ELSE /\ save' = [save EXCEPT !.pc = "responded",
                             !.result = ServerError("Failed to create concept")]
               /\ UNCHANGED storeVars
  /\ UNCHANGED <<loading, localVars, importVars, isLoading, toast, now, callVars,
                 showForm, editingConcept, listIsLoading, deletes>>

\* update validators: what the update sets on a required path is a value,
\* and each path it sets takes its type
UpdateValid(body) ==
  /\ \A key \in SchemaRequired :
       Get(body, key) # Undef => SchemaCast(key, Get(body, key)) \notin {Undef, Str(<<>>)}
  /\ \A key \in SchemaStrings : SchemaCast(key, Get(body, key)).t \in {"undefined", "string"}
  /\ Get(body, "topicID").t \in {"undefined", "null", "number"}

\* the document findByIdAndUpdate returns with new: true
UpdatedDocument(doc, body, time) ==
  Obj([key \in Keys |->
    IF key = "updatedAt" THEN DateVal(time)
    ELSE IF key \in SchemaRequired \cup SchemaStrings /\ Get(body, key) # Undef
      THEN SchemaCast(key, Get(body, key))
    ELSE doc.f[key]])

\* PUT /api/concepts/[id]: Concept.findByIdAndUpdate(id, body, ...)
UpdateConcept ==
  /\ save.pc = "requested"
  /\ save.method = "PUT"
  /\ LET body == JSONparse(save.body)
         Found == {k \in 1..Len(store) : store[k].f["_id"] = save.id}
     IN IF ~UpdateValid(body)
          THEN /\ save' = [save EXCEPT !.pc = "responded",
                             !.result = ServerError("Failed to update concept")]
               /\ UNCHANGED store
        ELSE IF Found = {}
          THEN /\ save' = [save EXCEPT !.pc = "responded",
                             !.result = Response(FALSE, "Concept not found", "", -1, <<>>)]
               /\ UNCHANGED store
        ELSE LET k == CHOOSE j \in Found : \A i \in Found : j <= i
             IN /\ store' = [store EXCEPT ![k] = UpdatedDocument(store[k], body, now)]
                /\ save' = [save EXCEPT !.pc = "responded",
                              !.result = Response(TRUE, "", "", -1,
                                           <<ToJSON(UpdatedDocument(store[k], body, now))>>)]
  /\ UNCHANGED <<loading, localVars, importVars, isLoading, toast, now, nextId, callVars,
                 showForm, editingConcept, listIsLoading, deletes>>

\* the route answers 500 because dbConnect or the store call threw, or the
\* fetch of handleSave rejects
SaveFails ==
  /\ save.pc = "requested"
  /\ \E failure \in {ServerError("Failed to create concept"), FetchRejected} :
       save' = [save EXCEPT !.pc = "responded", !.result = failure]
  /\ UNCHANGED <<loading, localVars, importVars, isLoading, toast, now, storeVars, callVars,
                 showForm, editingConcept, listIsLoading, deletes>>

\* Replaced that leaves the list as it was
Replaced_Nothing(list, id, data) == list

\* concepts.map((c) => (c._id === id ? data : c))
Replaced(list, id, data) ==
  [k \in 1..Len(list) |-> IF Get(list[k], "_id") = id THEN data ELSE list[k]]

\* SaveReport without localStorage.setItem
SaveReport_NoCache ==
  /\ save.pc = "responded"
  /\ IF save.result.success
       THEN LET saved == IF save.method = "PUT"
                           THEN Replaced(save.closure, save.id, save.result.data[1])
                           ELSE <<save.result.data[1]>> \o save.closure
            IN /\ concepts' = saved
               /\ UNCHANGED cache
               /\ showForm' = FALSE
               /\ editingConcept' = Undef
       ELSE UNCHANGED <<localVars, showForm, editingConcept>>
  /\ listIsLoading' = FALSE
  /\ save' = Idle
  /\ UNCHANGED <<loading, importVars, isLoading, toast, now, storeVars, callVars, deletes>>

\* ConceptList.handleSave from the response on
SaveReport ==
  /\ save.pc = "responded"
  /\ IF save.result.success
       THEN LET saved == IF save.method = "PUT"
                           THEN Replaced(save.closure, save.id, save.result.data[1])
                           ELSE <<save.result.data[1]>> \o save.closure
            IN /\ concepts' = saved
               /\ cache' = JSONstringify(Arr(saved))
               /\ showForm' = FALSE
               /\ editingConcept' = Undef
       ELSE UNCHANGED <<localVars, showForm, editingConcept>>
  /\ listIsLoading' = FALSE
  /\ save' = Idle
  /\ UNCHANGED <<loading, importVars, isLoading, toast, now, storeVars, callVars, deletes>>

(* ------------------------------- delete ------------------------------- *)
\* ConceptCard.handleDelete and ConceptList.handleDelete up to the fetch,
\* the user confirming; a card's button is disabled while its delete is
\* pending, and the open form covers the cards
handleDelete(id) ==
  /\ ~loading
  /\ ~showForm
  /\ \E k \in 1..Len(concepts) : concepts[k].f["_id"] = id
  /\ Truthy(id)
  /\ \A d \in deletes : d.id # id
  /\ deletes' = deletes \cup {[id |-> id, closure |-> concepts, pc |-> "requested"]}
  /\ UNCHANGED <<loading, localVars, importVars, isLoading, toast, now, storeVars, callVars,
                 showForm, editingConcept, listIsLoading, save>>

\* DELETE /api/concepts/[id]: Concept.findByIdAndDelete(id)
DeleteConcept(d) ==
  /\ d \in deletes
  /\ d.pc = "requested"
  /\ LET Other(doc) == doc.f["_id"] # d.id
     IN IF \E k \in 1..Len(store) : store[k].f["_id"] = d.id
          THEN /\ store' = SelectSeq(store, Other)
               /\ deletes' = (deletes \ {d}) \cup {[d EXCEPT !.pc = "deleted"]}
          ELSE /\ deletes' = (deletes \ {d}) \cup {[d EXCEPT !.pc = "failed"]}
               /\ UNCHANGED store
  /\ UNCHANGED <<loading, localVars, importVars, isLoading, toast, now, nextId, callVars,
                 showForm, editingConcept, listIsLoading, save>>

\* DELETE /api/concepts/[id] when dbConnect or the store call throws, or
\* the fetch rejects
DeleteFails(d) ==
  /\ d \in deletes
  /\ d.pc = "requested"
  /\ deletes' = (deletes \ {d}) \cup {[d EXCEPT !.pc = "failed"]}
  /\ UNCHANGED <<loading, localVars, importVars, isLoading, toast, now, storeVars, callVars,
                 showForm, editingConcept, listIsLoading, save>>

\* ConceptList.handleDelete from the response on
DeleteReport(d) ==
  /\ d \in deletes
  /\ d.pc \in {"deleted", "failed"}
  /\ deletes' = deletes \ {d}
  /\ IF d.pc = "deleted"
       THEN LET Other(c) == c.f["_id"] # d.id
            IN /\ concepts' = SelectSeq(d.closure, Other)
               /\ cache' = JSONstringify(Arr(SelectSeq(d.closure, Other)))
       ELSE UNCHANGED localVars
  /\ UNCHANGED <<loading, importVars, isLoading, toast, now, storeVars, callVars,
                 showForm, editingConcept, listIsLoading, save>>

(* --------------------------- specifications --------------------------- *)
Titled(ti) == With(BaseEntry, "title", Str(ti))

\* the files imported where the application is checked as a whole
SyncFiles ==
  {Json(Arr(<<Titled(<<"A">>)>>)),
   Json(Arr(<<Titled(<<"a">>), With(Titled(<<"B">>), "topicID", Num(2))>>))}

\* the application: import, push and pull
Next ==
  \/ loadConcepts
  \/ \E content \in SyncFiles : handleImport(content)
  \/ readerOnload
  \/ readerOnerror
  \/ handleCancelImport
  \/ handleValidatedImport
  \/ handleSyncToDatabase
  \/ PostClear
  \/ PostInsert
  \/ PostFails
  \/ PushFetchFails
  \/ PushReport
  \/ handleSyncFromDatabase
  \/ GetAll
  \/ GetFails
  \/ PullReport

Spec == Init /\ [][Next]_vars

\* the files imported where the import-commit merge is checked
MergeFiles ==
  {Garbage,
   Json(Arr(<<Titled(<<"A">>)>>)),
   Json(Arr(<<Titled(<<"A">>), Titled(<<" ", "a">>)>>)),
   Json(Arr(<<Titled(<<"a">>), With(Titled(<<"B">>), "topicID", Num(2))>>)),
   Json(Arr(<<Titled(<<"b">>), Titled(<<"B">>), Titled(<<"A">>)>>)),
   Json(Arr(<<Titled(<<"B">>), With(BaseEntry, "keyword", Undef)>>)),
   Json(Arr(<<With(Titled(<<"c">>), "extra", Num(1)), Titled(<<"c", " ">>)>>))}

\* import alone: select, read, validate, commit or cancel
NextM ==
  \/ loadConcepts
  \/ \E content \in MergeFiles : handleImport(content)
  \/ readerOnload
  \/ readerOnerror
  \/ handleCancelImport
  \/ handleValidatedImport

SpecM == Init /\ [][NextM]_vars

\* the Validator on the files of FileContents
NextV ==
  \/ loadConcepts
  \/ \E content \in FileContents : handleImport(content)
  \/ readerOnload
  \/ readerOnerror
  \/ handleCancelImport

SpecV == Init /\ [][NextV]_vars


\* the files imported where the clock runs
TimedFiles ==
  {Garbage,
   Json(Arr(<<>>)),
   Json(Arr(<<BaseEntry>>)),
   Json(Arr(<<With(Titled(<<"B">>), "createdAt", Str(toISOString(1)))>>)),
   Json(Arr(<<With(Titled(<<"c">>), "_id", Str(<<"i">>)), With(BaseEntry, "keyword", Undef)>>)),
   Json(Arr(<<With(With(Titled(<<"d">>), "_id", Str(<<"i">>)), "updatedAt", Str(toISOString(0)))>>))}

\* import while time passes: select, read, validate, commit or cancel
NextT ==
  \/ loadConcepts
  \/ Tick
  \/ \E content \in TimedFiles : handleImport(content)
  \/ readerOnload
  \/ readerOnerror
  \/ handleCancelImport
  \/ handleValidatedImport

SpecT == Init /\ [][NextT]_vars

\* most requests in flight at once where the busy flags are checked
MaxCalls == 2

\* the requests in flight from the form and the settings panel
InFlight ==
  (IF push = Idle THEN 0 ELSE 1) + (IF pull = Idle THEN 0 ELSE 1) + (IF save = Idle THEN 0 ELSE 1)

\* the form, the push and the pull side by side
NextF ==
  \/ loadConcepts
  \/ openForm
  \/ \E k \in 1..Len(concepts) : handleEdit(concepts[k])
  \/ handleCancel
  \/ InFlight < MaxCalls /\ \E conceptData \in FormInputs : handleSave(conceptData)
  \/ CreateConcept
  \/ UpdateConcept
  \/ SaveFails
  \/ SaveReport
  \/ InFlight < MaxCalls /\ handleSyncToDatabase
  \/ PostClear
  \/ PostInsert
  \/ PostFails
  \/ PushFetchFails
  \/ PushReport
  \/ InFlight < MaxCalls /\ handleSyncFromDatabase
  \/ GetAll
  \/ GetFails
  \/ PullReport

SpecF == Init /\ [][NextF]_vars

\* the file imported where the operations are run one after the other
ListFiles == {Json(Arr(<<Titled(<<"A">>)>>))}

\* no operation is under way
Quiet ==
  /\ reading = NoFile
  /\ push = Idle
  /\ pull = Idle
  /\ save = Idle
  /\ deletes = {}

\* create, update, delete, import, push and pull, each started when the one
\* before is over
NextC ==
  \/ loadConcepts
  \/ Quiet /\ \E content \in ListFiles : handleImport(content)
  \/ readerOnload
  \/ readerOnerror
  \/ handleCancelImport
  \/ handleValidatedImport
  \/ openForm
  \/ \E k \in 1..Len(concepts) : handleEdit(concepts[k])
  \/ handleCancel
  \/ Quiet /\ \E conceptData \in ListInputs : handleSave(conceptData)
  \/ CreateConcept
  \/ UpdateConcept
  \/ SaveFails
  \/ SaveReport
  \/ Quiet /\ \E k \in 1..Len(concepts) : handleDelete(Get(concepts[k], "_id"))
  \/ \E d \in deletes : DeleteConcept(d)
  \/ \E d \in deletes : DeleteFails(d)
  \/ \E d \in deletes : DeleteReport(d)
  \/ Quiet /\ handleSyncToDatabase
  \/ PostClear
  \/ PostInsert
  \/ PostFails
  \/ PushFetchFails
  \/ PushReport
  \/ Quiet /\ handleSyncFromDatabase
  \/ GetAll
  \/ GetFails
  \/ PullReport

SpecC == Init /\ [][NextC]_vars


\* the list on its own, its operations side by side: a card's delete can be
\* started while another delete or a save is under way
NextD ==
  \/ loadConcepts
  \/ openForm
  \/ \E k \in 1..Len(concepts) : handleEdit(concepts[k])
  \/ handleCancel
  \/ \E conceptData \in FormInputs : handleSave(conceptData)
  \/ CreateConcept
  \/ UpdateConcept
  \/ SaveFails
  \/ SaveReport
  \/ \E k \in 1..Len(concepts) : handleDelete(Get(concepts[k], "_id"))
  \/ \E d \in deletes : DeleteConcept(d)
  \/ \E d \in deletes : DeleteFails(d)
  \/ \E d \in deletes : DeleteReport(d)

SpecD == Init /\ [][NextD]_vars

\* no operation of the list is under way
ListQuiet == save = Idle /\ deletes = {}

\* the list on its own, each create, update and delete started when the one
\* before is over
NextS ==
  \/ loadConcepts
  \/ Tick
  \/ openForm
  \/ \E k \in 1..Len(concepts) : handleEdit(concepts[k])
  \/ handleCancel
  \/ ListQuiet /\ \E conceptData \in ListInputs : handleSave(conceptData)
  \/ CreateConcept
  \/ UpdateConcept
  \/ SaveFails
  \/ SaveReport
  \/ ListQuiet /\ \E k \in 1..Len(concepts) : handleDelete(Get(concepts[k], "_id"))
  \/ \E d \in deletes : DeleteConcept(d)
  \/ \E d \in deletes : DeleteFails(d)
  \/ \E d \in deletes : DeleteReport(d)

SpecS == Init /\ [][NextS]_vars

\* no file is being read and none is staged
Unstaged == reading = NoFile /\ jsonPreview = Blank

\* the settings panel: an export, a file read or a push starts when nothing
\* is under way, a pull also while a push is
NextL ==
  \/ loadConcepts
  \/ Quiet /\ handleExport
  \/ Quiet /\ \E content \in ListFiles : handleImport(content)
  \/ readerOnload
  \/ readerOnerror
  \/ handleCancelImport
  \/ handleValidatedImport
  \/ Quiet /\ handleSyncToDatabase
  \/ PostClear
  \/ PostInsert
  \/ PostFails
  \/ PushFetchFails
  \/ PushReport
  \/ Unstaged /\ handleSyncFromDatabase
  \/ GetAll
  \/ GetFails
  \/ PullReport

\* a pending file read ends in onload or onerror, a pending request is
\* answered or its fetch rejects, and the handler that awaits it resumes
Resolves ==
  /\ WF_vars(readerOnload \/ readerOnerror)
  /\ WF_vars(PostClear \/ PostInsert \/ PostFails \/ PushFetchFails \/ PushReport)
  /\ WF_vars(GetAll \/ GetFails \/ PullReport)

SpecL == Init /\ [][NextL]_vars /\ Resolves

(* ----------------------- properties of the Validator ------------------ *)
\* a validation result is staged for a file whose text is that of an array
StagedArray ==
  /\ validationResult # Null
  /\ jsonPreview.kind = "json"
  /\ jsonPreview.v.t = "array"

NonBlank(s) == \E k \in 1..Len(s) : s[k] # " "

GoodRequired(e, f) == e.f[f].t = "string" /\ NonBlank(e.f[f].v)

OptionalStrings == {"detailedExplanation", "whenToUse", "whyNeed", "codeExample", "differences"}
RequiredSet == {"title", "topic", "definition", "keyword"}

\* an object whose required fields are non-blank strings and whose topicID,
\* if present, is a number
RequiredWellFormed(e) ==
  /\ e.t = "object"
  /\ \A f \in RequiredSet : GoodRequired(e, f)
  /\ e.f["topicID"].t \in {"undefined", "number"}

\* an entry that fits the Concept Record: as above, and the optional text
\* fields, if present, are strings
WellFormedEntry(e) ==
  /\ RequiredWellFormed(e)
  /\ \A f \in OptionalStrings : e.f[f].t \in {"undefined", "string"}

ErrorLevelAt(res, idx) ==
  {k \in 1..Len(res.errors) : res.errors[k].type = "error" /\ res.errors[k].conceptIndex = idx}

ErrorLevel(res) == {k \in 1..Len(res.errors) : res.errors[k].type = "error"}

\* the k-th smallest member of a set of positions
Nth(S, k) == CHOOSE i \in S : Cardinality({j \in S : j < i}) = k - 1

\* validConcepts holds, in order, the trimmed records at the positions of S
AcceptedExactly(res, items, S) ==
  /\ Len(res.validConcepts) = Cardinality(S)
  /\ \A k \in 1..Cardinality(S) :
       /\ items[Nth(S, k)].t = "object"
       /\ \A f \in RequiredSet :
            /\ items[Nth(S, k)].f[f].t = "string"
            /\ res.validConcepts[k].f[f] = Str(trim(items[Nth(S, k)].f[f].v))

\* C1: for an array input isValid is true exactly when at least one record
\* was accepted and the result holds no error-level diagnostic
C1_IsValidIffAcceptedAndNoError ==
  StagedArray =>
    (validationResult.isValid <=>
       (Len(validationResult.validConcepts) > 0 /\ ErrorLevel(validationResult) = {}))

\* a batch with an accepted record and a record-level error, hence invalid
C1_Witness ==
  /\ StagedArray
  /\ Len(validationResult.validConcepts) > 0
  /\ ErrorLevel(validationResult) # {}
  /\ ~validationResult.isValid

\* C2: a non-empty array of objects whose required fields are non-blank
\* strings (topicID, if present, a number) is valid and every entry is
\* accepted, in order
C2_WellFormedBatchAccepted ==
  (/\ StagedArray
   /\ Len(jsonPreview.v.items) > 0
   /\ \A i \in 1..Len(jsonPreview.v.items) : RequiredWellFormed(jsonPreview.v.items[i]))
  => /\ validationResult.isValid
     /\ AcceptedExactly(validationResult, jsonPreview.v.items, 1..Len(jsonPreview.v.items))

\* C3: the record at index i is accepted if and only if no error-level
\* diagnostic carries index i; an entry that is not an object is never accepted
C3_AcceptedIffNoError ==
  StagedArray =>
    AcceptedExactly(validationResult, jsonPreview.v.items,
      {i \in 1..Len(jsonPreview.v.items) : ErrorLevelAt(validationResult, i - 1) = {}})

\* entry e is an object without field f and well-formed in everything else
LacksOnly(e, f) ==
  /\ e.t = "object"
  /\ e.f[f] = Undef
  /\ WellFormedEntry(With(e, f, Str(<<"x">>)))

\* position i of items lacks exactly field f, every other entry is well-formed
OneFieldMissing(items, i, f) ==
  /\ LacksOnly(items[i], f)
  /\ \A j \in 1..Len(items) : j # i => WellFormedEntry(items[j])

\* C4: when one record lacks one required field and all else is well-formed
\* there is exactly one error-level diagnostic, it names that field and that
\* index, and exactly the other records are accepted
C4_OneMissingFieldOneError ==
  StagedArray =>
    \A i \in 1..Len(jsonPreview.v.items) : \A f \in RequiredSet :
      OneFieldMissing(jsonPreview.v.items, i, f) =>
        /\ Cardinality(ErrorLevel(validationResult)) = 1
        /\ \A k \in ErrorLevel(validationResult) :
             /\ validationResult.errors[k].field = f
             /\ validationResult.errors[k].conceptIndex = i - 1
        /\ AcceptedExactly(validationResult, jsonPreview.v.items,
                           (1..Len(jsonPreview.v.items)) \ {i})

\* a two-record batch whose second record lacks its keyword
C4_Witness ==
  /\ StagedArray
  /\ Len(jsonPreview.v.items) = 2
  /\ OneFieldMissing(jsonPreview.v.items, 2, "keyword")
  /\ Len(validationResult.validConcepts) = 1

\* an object that carries a title: a string that is not the empty string
StringTitle(e) == e.t = "object" /\ e.f["title"].t = "string" /\ e.f["title"].v # <<>>

\* entry j repeats, case-insensitively and trimmed, the title of an earlier object
RepeatsEarlierTitle(items, j) ==
  /\ StringTitle(items[j])
  /\ \E i \in 1..(j - 1) :
       /\ StringTitle(items[i])
       /\ trim(toLowerCase(items[i].f["title"].v)) = trim(toLowerCase(items[j].f["title"].v))

DuplicateWarningsAt(res, idx) ==
  {k \in 1..Len(res.errors) :
     /\ res.errors[k].type = "warning"
     /\ res.errors[k].message = "Duplicate title"
     /\ res.errors[k].conceptIndex = idx}

\* C6: a record repeating an earlier title gets exactly one duplicate-title
\* warning; if it is well-formed it is accepted all the same, and a batch of
\* well-formed records stays valid
C6_DuplicateWarnedNotRejected ==
  StagedArray =>
    \A j \in 1..Len(jsonPreview.v.items) :
      RepeatsEarlierTitle(jsonPreview.v.items, j) =>
        /\ Cardinality(DuplicateWarningsAt(validationResult, j - 1)) = 1
        /\ WellFormedEntry(jsonPreview.v.items[j]) =>
             \E k \in 1..Len(validationResult.validConcepts) :
               validationResult.validConcepts[k].f["title"]
                 = Str(trim(jsonPreview.v.items[j].f["title"].v))
        /\ (\A i \in 1..Len(jsonPreview.v.items) : WellFormedEntry(jsonPreview.v.items[i]))
             => validationResult.isValid


(* ---------------------- properties of import-commit ------------------- *)
LowerTitle(c) == toLowerCase(c.f["title"].v)

\* record c has the title of a record of existing, case aside
MatchesExisting(c, existing) ==
  \E k \in 1..Len(existing) : LowerTitle(existing[k]) = LowerTitle(c)

\* the incoming records, in order, that match no existing title
RECURSIVE KeptIncoming(_, _)
KeptIncoming(existing, incoming) ==
  IF incoming = <<>> THEN <<>>
  ELSE (IF MatchesExisting(Head(incoming), existing) THEN <<>> ELSE <<Head(incoming)>>)
         \o KeptIncoming(existing, Tail(incoming))

\* C5: of two staged records with the same title, case aside, that is in
\* no existing record, a commit imports the first and only the first
C5_FirstOccurrenceOnly ==
  [][handleValidatedImport =>
       \A i, j \in 1..Len(validationResult.validConcepts) :
         (/\ i < j
          /\ LowerTitle(validationResult.validConcepts[i]) = LowerTitle(validationResult.validConcepts[j])
          /\ ~MatchesExisting(validationResult.validConcepts[i], concepts))
         => /\ \E k \in 1..Len(concepts') : concepts'[k] = validationResult.validConcepts[i]
            /\ Cardinality({k \in 1..Len(concepts') :
                 LowerTitle(concepts'[k]) = LowerTitle(validationResult.validConcepts[i])}) = 1]_vars

\* C7: a commit yields the existing set, unchanged and in order, followed by
\* the incoming records, in order, that match no existing title
C7_MergeIsAdditive ==
  [][handleValidatedImport =>
       /\ concepts' = concepts \o KeptIncoming(concepts, validationResult.validConcepts)
       /\ SubSeq(concepts', 1, Len(concepts)) = concepts
       /\ Len(concepts') = Len(concepts)
            + Cardinality({k \in 1..Len(validationResult.validConcepts) :
                ~MatchesExisting(validationResult.validConcepts[k], concepts)})]_vars

\* a commit onto a non-empty set that added one record of a larger batch
C7_Witness ==
  /\ toast.title = "Import successful"
  /\ toast.count = 1
  /\ Len(concepts) = 2
  /\ validationResult = Null

\* C8: merging the batch just committed once more changes nothing
C8_MergeIdempotent ==
  [][handleValidatedImport =>
       updatedConcepts(concepts', validationResult.validConcepts) = concepts']_vars

\* a batch committed onto a set that already held all its titles
C8_Witness ==
  /\ toast.title = "Import successful"
  /\ toast.count = 0
  /\ Len(concepts) > 0
  /\ validationResult = Null

(* ------------------------ properties of the sync ---------------------- *)
ContentFields == {"topicID", "topic", "title", "definition", "detailedExplanation",
                  "whenToUse", "whyNeed", "codeExample", "keyword", "differences"}

\* document doc holds record rec: the same content, and rec's identifier if
\* it has one
HoldsRecord(doc, rec) ==
  /\ \A key \in ContentFields : doc.f[key] = rec.f[key]
  /\ rec.f["_id"] # Undef => doc.f["_id"] = rec.f["_id"]

\* C9: a pull that succeeds with records makes the local set and the cache
\* the fetched sequence, and reports its length; the fetched sequence is
\* the store's documents
C9_PullReplacesLocal ==
  [][/\ (PullReport /\ pull.result.success /\ Len(pull.result.data) > 0) =>
          /\ concepts' = pull.result.data
          /\ JSONparse(cache').items = pull.result.data
          /\ toast'.count = Len(pull.result.data)
     /\ GetAll =>
          /\ Len(pull'.result.data) = Len(store)
          /\ \A k \in 1..Len(store) :
               \E m \in 1..Len(store) : pull'.result.data[m].f["_id"] = store[k].f["_id"]]_vars

\* a successful pull has replaced a local set holding records without identifier
C9_Witness ==
  /\ pull.pc = "idle"
  /\ toast.title = "Sync successful"
  /\ toast.description = "from database"
  /\ Len(concepts) = 1
  /\ concepts[1].f["_id"] # Undef
  /\ JSONparse(cache).items = concepts

\* C10: when a push reports success the store holds exactly the records of
\* the local set that was sent, and the count reported is its length
C10_PushReplacesStore ==
  [][(PushReport /\ push.result.success) =>
       /\ Len(store) = Len(push.closure)
       /\ \A k \in 1..Len(store) : HoldsRecord(store[k], push.closure[k])
       /\ toast'.count = Len(push.closure)]_vars

\* a successful push of two records has been reported
C10_Witness ==
  /\ push.pc = "idle"
  /\ toast.title = "Sync successful"
  /\ toast.description = "to database"
  /\ toast.count = 2
  /\ Len(store) = 2
  /\ Len(concepts) = 2

\* C11: a push started on an empty local set reports the "Nothing to sync"
\* error and does nothing else: no request is sent, the store and the
\* sync-to busy flag stay as they were, and no push was under way
C11_EmptyPushSendsNothing ==
  [][(handleSyncToDatabase /\ Len(concepts) = 0) =>
       /\ toast'.title = "Nothing to sync"
       /\ toast'.variant = "destructive"
       /\ push = Idle /\ push' = Idle
       /\ store' = store
       /\ ~isLoading.syncTo /\ ~isLoading'.syncTo]_vars

\* the "Nothing to sync" error is on show, nothing was sent, the store is empty
C11_Witness ==
  /\ toast.title = "Nothing to sync"
  /\ Len(concepts) = 0
  /\ push = Idle
  /\ ~isLoading.syncTo
  /\ store = <<>>

\* C12: a pull answered with an empty record set leaves the local set and
\* the cache as they were and reports "No data found", which is no failure
C12_EmptyPullKeepsLocal ==
  [][(PullReport /\ pull.result.success /\ Len(pull.result.data) = 0) =>
       /\ concepts' = concepts
       /\ cache' = cache
       /\ toast'.title = "No data found"
       /\ toast'.variant # "destructive"]_vars

\* "No data found" was reported to a local set that holds records
C12_Witness ==
  /\ toast.title = "No data found"
  /\ pull = Idle
  /\ Len(concepts) > 0
  /\ JSONparse(cache).items = concepts

\* the steps of a push: the handler, the route, the report
PushStep ==
  handleSyncToDatabase \/ PostClear \/ PostInsert \/ PostFails \/ PushFetchFails \/ PushReport

\* C13: no step of a push changes the local set or the cache, whatever the
\* outcome, and neither does the report of a pull that failed
C13_SyncFailureKeepsLocal ==
  [][/\ PushStep => (concepts' = concepts /\ cache' = cache)
     /\ (PullReport /\ ~pull.result.success) => (concepts' = concepts /\ cache' = cache)]_vars

\* a push of a non-empty local set has been reported as failed
C13_Witness ==
  /\ toast.title = "Sync failed"
  /\ push = Idle
  /\ pull = Idle
  /\ Len(concepts) > 0

\* the records data are the documents docs, in some order
SameDocuments(data, docs) ==
  /\ Len(data) = Len(docs)
  /\ \A k \in 1..Len(docs) : \E m \in 1..Len(data) : data[m] = ToJSON(docs[k])

\* C14: a fetch of all records that runs while a replace-all is under way
\* returns the complete record set of before the replace-all or the complete
\* set it was sent, never an empty or partial store
C14_ReplaceAllAtomic ==
  [][(GetAll /\ push.pc \in {"requested", "cleared"}) =>
       \/ SameDocuments(pull'.result.data, push.prior)
       \/ /\ Len(pull'.result.data) = Len(push.closure)
          /\ \A k \in 1..Len(push.closure) : HoldsRecord(pull'.result.data[k], push.closure[k])]_vars

\* C15: when the sync POST answers with a failure the store holds the
\* records it held when the request arrived
C15_ReplaceAllOrNothing ==
  [][((PostClear \/ PostInsert \/ PostFails) /\ push'.pc = "responded" /\ ~push'.result.success)
       => store' = push.prior]_vars

\* the store's documents hold the records recs, one for one and in order
HoldsAll(docs, recs) ==
  /\ Len(docs) = Len(recs)
  /\ \A k \in 1..Len(recs) : HoldsRecord(docs[k], recs[k])

SameContent(docs, others) ==
  /\ Len(docs) = Len(others)
  /\ \A k \in 1..Len(docs) : \A key \in ContentFields : docs[k].f[key] = others[k].f[key]

\* C16: a push that succeeds on a store left by a push of the same local
\* set leaves the store with the same number of records of the same content
C16_PushIdempotent ==
  [][(PostInsert /\ push'.result.success /\ HoldsAll(push.prior, push.closure))
       => SameContent(store', push.prior)]_vars

\* a local set of one record without identifier was pushed twice, with success
C16_Witness ==
  /\ push = Idle
  /\ toast.title = "Sync successful"
  /\ toast.description = "to database"
  /\ Len(concepts) = 1
  /\ concepts[1].f["_id"] = Undef
  /\ Len(store) = 1
  /\ nextId = 2

(* ---------------- properties of the Validator's failure paths ---------- *)
\* x has the shape of a ValidationResult
IsValidationResult(x) ==
  /\ DOMAIN x = {"isValid", "errors", "validConcepts", "totalConcepts"}
  /\ x.isValid \in BOOLEAN
  /\ x.totalConcepts \in Nat
  /\ \A k \in 1..Len(x.errors) : x.errors[k].type \in {"error", "warning", "info"}

\* C19: whatever text was read, the Validator hands back a ValidationResult,
\* and a result that holds an error-level diagnostic is not valid
C19_ValidatorAlwaysReturns ==
  jsonPreview # Blank =>
    /\ IsValidationResult(validationResult)
    /\ ErrorLevel(validationResult) # {} => ~validationResult.isValid

\* an entry without error diagnostic made the callback throw; the result
\* reports it
C19_Witness ==
  /\ StagedArray
  /\ \E i \in 1..Len(jsonPreview.v.items) :
       /\ RequiredWellFormed(jsonPreview.v.items[i])
       /\ NormalizeThrows(jsonPreview.v.items[i])
  /\ IsValidationResult(validationResult)
  /\ ~validationResult.isValid
  /\ \E k \in ErrorLevel(validationResult) :
       validationResult.errors[k].message = "Unexpected validation error"

\* the staged text does not parse, or parses to something that is no array
Unusable(text) == text.kind = "garbage" \/ (text.kind = "json" /\ text.v.t # "array")

\* C20: for a text that does not parse or is no array the result holds one
\* diagnostic, an error tied to no record, is not valid, accepts nothing and
\* counts no record
C20_UnusableInputOneError ==
  (Unusable(jsonPreview) /\ validationResult # Null) =>
    /\ Len(validationResult.errors) = 1
    /\ validationResult.errors[1].type = "error"
    /\ validationResult.errors[1].conceptIndex = -1
    /\ ~validationResult.isValid
    /\ validationResult.validConcepts = <<>>
    /\ validationResult.totalConcepts = 0

\* the text of a lone well-formed object is staged
C20_Witness ==
  /\ jsonPreview = Json(BaseEntry)
  /\ validationResult # Null
  /\ Len(validationResult.errors) = 1

RequiredNonBlank(rec) ==
  \A f \in RequiredSet : rec.f[f].t = "string" /\ NonBlank(rec.f[f].v)

\* C18: every record of the local set and every record of the store has a
\* title, a topic, a definition and a keyword that are strings and not
\* empty once trimmed
C18_RequiredFieldsNonEmpty ==
  /\ \A k \in 1..Len(concepts) : RequiredNonBlank(concepts[k])
  /\ \A k \in 1..Len(store) : RequiredNonBlank(store[k])

(* ------------------ properties of the Validator, continued ------------ *)
\* C21: for the text of an empty array the result is not valid, accepts
\* nothing, counts no record and holds one diagnostic, a warning; it holds no
\* error and no info
C21_EmptyArrayOneWarning ==
  (jsonPreview = Json(Arr(<<>>)) /\ validationResult # Null) =>
    /\ ~validationResult.isValid
    /\ validationResult.validConcepts = <<>>
    /\ validationResult.totalConcepts = 0
    /\ Len(validationResult.errors) = 1
    /\ validationResult.errors[1].type = "warning"
    /\ \A k \in 1..Len(validationResult.errors) :
         validationResult.errors[k].type \notin {"error", "info"}

\* the text of an empty array is staged with its warning
C21_Witness ==
  /\ jsonPreview = Json(Arr(<<>>))
  /\ validationResult # Null
  /\ validationResult.errors[1].message = "The file contains no concepts"

\* C22: validating the staged text once more, at whatever moment, gives the
\* result that is staged: the same flag, diagnostics and accepted records,
\* timestamps included
C22_ValidatorDeterministic ==
  jsonPreview # Blank =>
    \A t \in 0..MaxNow : validateJsonContent(jsonPreview, t) = validationResult

\* no record of recs carries an identifier
IdLess(recs) == \A k \in 1..Len(recs) : recs[k].f["_id"] = Undef

\* C23: no record the Validator accepts carries an identifier, whatever the
\* entry it came from carried, and the records a commit adds to the local
\* set carry none
C23_DraftsCarryNoId ==
  [][/\ validationResult' # Null => IdLess(validationResult'.validConcepts)
     /\ handleValidatedImport =>
          IdLess(SubSeq(concepts', Len(concepts) + 1, Len(concepts')))]_vars

\* the record of an entry that came with an identifier is in the local set,
\* without identifier
C23_Witness ==
  /\ validationResult = Null
  /\ toast.title = "Import successful"
  /\ \E k \in 1..Len(concepts) :
       concepts[k].f["title"] = Str(<<"d">>) /\ concepts[k].f["_id"] = Undef

(* -------------------- properties of the import gate ------------------- *)
\* C24: once the page has loaded, the local set and the cache change only
\* in a step that starts with a staged result that is valid, holds no
\* error-level diagnostic and accepts a record; a cancel changes neither;
\* a commit and a cancel both leave nothing staged
C24_ImportGate ==
  [][/\ (~loading /\ (concepts' # concepts \/ cache' # cache)) =>
          /\ handleValidatedImport
          /\ validationResult # Null
          /\ validationResult.isValid
          /\ ErrorLevel(validationResult) = {}
          /\ Len(validationResult.validConcepts) > 0
     /\ (handleValidatedImport \/ handleCancelImport) =>
          (validationResult' = Null /\ jsonPreview' = Blank)
     /\ handleCancelImport => (concepts' = concepts /\ cache' = cache)]_vars

\* a result that accepts a record and holds an error is staged over a local
\* set that an earlier commit filled: no commit is on offer
C24_Witness ==
  /\ ~loading
  /\ validationResult # Null
  /\ ErrorLevel(validationResult) # {}
  /\ Len(validationResult.validConcepts) > 0
  /\ ~validationResult.isValid
  /\ Len(concepts) = 1
  /\ cache = JSONstringify(Arr(concepts))

(* ------------------ properties of the list's operations --------------- *)
\* the store holds a document of identifier id
StoreHas(id) == \E m \in 1..Len(store) : store[m].f["_id"] = id

\* C25: where the list works on its own, a record leaves the store only by
\* a delete that succeeded; once no operation is under way no such record is
\* in the local set or in the cache, whatever was in flight when its delete
\* completed
C25_CompletedDeleteStays ==
  (~loading /\ ListQuiet) =>
    /\ \A k \in 1..Len(concepts) : StoreHas(concepts[k].f["_id"])
    /\ cache # NoItem =>
         \A k \in 1..Len(JSONparse(cache).items) : StoreHas(JSONparse(cache).items[k].f["_id"])

SameRecords(local, docs) ==
  /\ Len(local) = Len(docs)
  /\ \A k \in 1..Len(docs) : \E m \in 1..Len(local) : local[m] = ToJSON(docs[k])
  /\ \A m \in 1..Len(local) : \E k \in 1..Len(docs) : local[m] = ToJSON(docs[k])

\* C27: with creates, updates and deletes run one at a time from a local set
\* and a store that hold the same records, they hold the same records
\* whenever an operation is over; one that failed left the local set and
\* the cache as they were
C27_ListMirrorsStore ==
  [][/\ (~loading' /\ ListQuiet') => SameRecords(concepts', store')
     /\ (SaveReport /\ ~save.result.success) => (concepts' = concepts /\ cache' = cache)
     /\ \A d \in deletes :
          (DeleteReport(d) /\ d.pc = "failed") => (concepts' = concepts /\ cache' = cache)]_vars

\* two records were created, one was updated at a later moment and the
\* other deleted; the updated record is left on both sides
C27_Witness ==
  /\ ListQuiet
  /\ nextId = 2
  /\ Len(store) = 1
  /\ Len(concepts) = 1
  /\ concepts[1].f["updatedAt"] # concepts[1].f["createdAt"]
  /\ concepts[1] = ToJSON(store[1])

\* C28: the save of an edit of a record of the local set, when it succeeds,
\* was sent as an update, leaves the local set as long as it was and
\* replaces that record and no other
C28_EditSavesInPlace ==
  [][(/\ SaveReport
      /\ save.result.success
      /\ editingConcept # Undef
      /\ \E k \in 1..Len(concepts) : concepts[k] = editingConcept)
       => /\ save.method = "PUT"
          /\ Len(concepts') = Len(concepts)
          /\ \A k \in 1..Len(concepts) :
               concepts'[k] = IF concepts[k] = editingConcept
                                THEN save.result.data[1] ELSE concepts[k]]_vars

(* ---------------------- properties of the sync route ------------------ *)
\* entry rec has a required field that is falsy
MissingRequired(rec) == \E k \in 1..Len(requiredFields) : ~Truthy(Get(rec, requiredFields[k]))

\* the answers of the route's own check, both sent with status 400
OwnCheckErrors == {"Invalid data format", "Invalid concept data"}

\* C29: when the sync POST answers from its own check, the store holds what
\* it held when the request arrived, the payload is no array or holds an
\* entry with a missing required field, and the index reported is that of
\* the first such entry
C29_RejectsBeforeClearing ==
  [][(PostClear /\ push'.result.error \in OwnCheckErrors) =>
       /\ store' = store
       /\ store' = push.prior
       /\ LET payload == JSONparse(push.body)
              i == push'.result.count + 1
          IN IF payload.t # "array"
               THEN push'.result.error = "Invalid data format"
               ELSE /\ push'.result.error = "Invalid concept data"
                    /\ i \in 1..Len(payload.items)
                    /\ MissingRequired(payload.items[i])
                    /\ \A j \in 1..(i - 1) : ~MissingRequired(payload.items[j])]_vars

\* a payload whose third entry is the first to lack a required field was
\* turned down; the two documents of an earlier sync are still there
C29_Witness ==
  /\ push.pc = "responded"
  /\ push.result.error = "Invalid concept data"
  /\ push.result.count = 2
  /\ Len(store) = 2
  /\ store = push.prior

(* ------------------ properties of the busy flags, in time ------------- *)
\* C30: a sync-to, sync-from or import flag that is set is cleared later
\* on, whichever way the push, the pull or the file read ends; the export
\* flag and the flag of a commit are cleared within their handler, so the
\* export flag is never left set
C30_BusyFlagsClear ==
  /\ isLoading.syncTo ~> ~isLoading.syncTo
  /\ isLoading.syncFrom ~> ~isLoading.syncFrom
  /\ isLoading.import ~> ~isLoading.import
  /\ [](~isLoading.export)

\* a pull has ended on its "No data found" return and its flag is cleared,
\* while a push is still under way with its flag set
C30_Witness ==
  /\ toast.title = "No data found"
  /\ pull = Idle
  /\ ~isLoading.syncFrom
  /\ push # Idle
  /\ isLoading.syncTo

====
